---- MODULE Spec2Model ----
(***************************************************************************)
(* Theoretical-cost comparison of SSSP algorithms: the cost functions, the *)
(* two analysis scripts (run_analysis.py, run_comprehensive_analysis.py)   *)
(* and the scenario runner run_and_plot_scenario.                          *)
(*                                                                         *)
(* NumPy's float64 arrays are modelled as sequences of values of a small   *)
(* rounding number format: a value is NaN, +Inf, -Inf or a finite multiple *)
(* of 1/Quantum, and each primitive (log2, sqrt, power, product, division) *)
(* rounds its exact result down to that grid, as each float64 primitive    *)
(* rounds to its own grid.  The decimal radix of np.logspace and of the    *)
(* literals 1e3 .. 1e9 is scaled down to Base so that every value of a     *)
(* sweep fits TLC's integers; exponents, factors and lists are the code's. *)
(***************************************************************************)
EXTENDS Integers, Sequences, FiniteSets, TLC

\* ------------------------------------------------------------------ bounds
\* Radix standing for 10 in np.logspace(...) and in the literals 1e3 .. 1e9.
Base == 2
\* Finite values are multiples of 1/Quantum.
Quantum == 2
\* Sample count standing for the scripts' 100 points per sweep.
SweepNum == 4
\* Longest array handed directly to a cost function.
MaxLen == 2

\* ------------------------------------------------------- program constants
\* np.logspace(3, 9, ...): exponents of the wide sweep.
WideLo == 3
WideHi == 9
\* np.logspace(3, 5, ...): upper exponent of the dense sweep.
DenseHi == 5
\* m = 10 * n
SparseFactor == 10
\* m = n**2 / 100
DenseDivisor == 100
\* l = n / 10
LongPathDivisor == 10

\* ------------------------------------------------------------ float format
Fin(v) == [k |-> "fin", v |-> v]
NaN == [k |-> "nan", v |-> 0]
PInf == [k |-> "pinf", v |-> 0]
NInf == [k |-> "ninf", v |-> 0]

\* The integer c as a float.
FInt(c) == Fin(c * Quantum)

IsFin(x) == x.k = "fin"
IsNaN(x) == x.k = "nan"

\* np.isneginf
IsNegInf(x) == x.k = "ninf"

\* -1, 0, 1: the sign of a value that is not NaN.
Sign(x) ==
    CASE x.k = "pinf" -> 1
      [] x.k = "ninf" -> -1
      [] OTHER -> IF x.v > 0 THEN 1 ELSE IF x.v < 0 THEN -1 ELSE 0

\* x < y; every comparison with NaN is false.
FLess(x, y) ==
    /\ ~IsNaN(x)
    /\ ~IsNaN(y)
    /\ CASE x.k = "ninf" -> y.k # "ninf"
         [] x.k = "pinf" -> FALSE
         [] OTHER -> \/ y.k = "pinf"
                     \/ (y.k = "fin" /\ x.v < y.v)

\* x > y
FGreater(x, y) == FLess(y, x)

\* x + y
FAdd(x, y) ==
    CASE IsNaN(x) \/ IsNaN(y) -> NaN
      [] IsFin(x) /\ IsFin(y) -> Fin(x.v + y.v)
      [] IsFin(x) -> y
      [] IsFin(y) -> x
      [] OTHER -> IF x.k = y.k THEN x ELSE NaN

\* -x
FNeg(x) ==
    CASE IsNaN(x) -> NaN
      [] x.k = "pinf" -> NInf
      [] x.k = "ninf" -> PInf
      [] OTHER -> Fin(0 - x.v)

\* x - y
FSub(x, y) == FAdd(x, FNeg(y))

\* np.abs
FAbs(x) ==
    CASE IsNaN(x) -> NaN
      [] IsFin(x) -> Fin(IF x.v < 0 THEN 0 - x.v ELSE x.v)
      [] OTHER -> PInf

\* floor(a * b / Quantum), with no intermediate larger than the result.
MulFix(a, b) == (a \div Quantum) * b + ((a % Quantum) * b) \div Quantum

\* x * y
FMul(x, y) ==
    CASE IsNaN(x) \/ IsNaN(y) -> NaN
      [] IsFin(x) /\ IsFin(y) -> Fin(MulFix(x.v, y.v))
      [] OTHER -> IF Sign(x) * Sign(y) = 0 THEN NaN
                  ELSE IF Sign(x) * Sign(y) > 0 THEN PInf ELSE NInf

\* x / c for a positive integer c
FDivInt(x, c) == IF IsFin(x) THEN Fin(x.v \div c) ELSE x

\* The largest y in lo .. hi with y * y <= t, given lo * lo <= t.
RECURSIVE SqrtSearch(_, _, _)
SqrtSearch(t, lo, hi) ==
    IF lo >= hi THEN lo
    ELSE LET mid == (lo + hi + 1) \div 2
         IN IF mid * mid <= t THEN SqrtSearch(t, mid, hi)
            ELSE SqrtSearch(t, lo, mid - 1)

\* floor(sqrt(t)) for t >= 0
ISqrt(t) == SqrtSearch(t, 0, IF t < 46340 THEN t ELSE 46340)

\* np.sqrt
FSqrt(x) ==
    CASE IsNaN(x) -> NaN
      [] x.k = "pinf" -> PInf
      [] x.k = "ninf" -> NaN
      [] OTHER -> IF x.v < 0 THEN NaN ELSE Fin(ISqrt(x.v * Quantum))

\* The largest y >= from with y^3 <= t, given from^3 <= t.
RECURSIVE CbrtUp(_, _)
CbrtUp(t, from) ==
    IF (from + 1) * (from + 1) * (from + 1) <= t THEN CbrtUp(t, from + 1)
    ELSE from

\* x ** (2/3) of NumPy's float power: NaN for a negative finite base.
FPow23(x) ==
    CASE IsNaN(x) -> NaN
      [] x.k = "pinf" -> PInf
      [] x.k = "ninf" -> PInf
      [] OTHER -> IF x.v < 0 THEN NaN
                  ELSE Fin(CbrtUp(Quantum * x.v * x.v, 0))

\* x ** 2
FSquare(x) == FMul(x, x)

\* The largest e >= 0 with Quantum * 2^e <= v, for v >= Quantum.
RECURSIVE ExpUp(_, _)
ExpUp(v, e) == IF Quantum * 2^(e + 1) <= v THEN ExpUp(v, e + 1) ELSE e

\* The smallest e >= 1 with v * 2^e >= Quantum, for 0 < v < Quantum.
RECURSIVE ExpDown(_, _)
ExpDown(v, e) == IF v * 2^e >= Quantum THEN e ELSE ExpDown(v, e + 1)

\* The largest f with 2^f * Quantum^Quantum <= r^Quantum, for Quantum <= r.
RECURSIVE FracLog(_, _)
FracLog(r, f) ==
    IF 2^(f + 1) * Quantum^Quantum <= r^Quantum THEN FracLog(r, f + 1) ELSE f

\* floor(Quantum * log2(v / Quantum)) for v > 0: the exponent of v, then the
\* logarithm of its mantissa (kept in [Quantum, 2 * Quantum)).
Log2Fix(v) ==
    IF v >= Quantum
    THEN LET e == ExpUp(v, 0)
         IN e * Quantum + FracLog(v \div 2^e, 0)
    ELSE LET e == ExpDown(v, 1)
         IN FracLog(v * 2^e, 0) - e * Quantum

\* np.log2: -Inf at 0, NaN below 0.
FLog2(x) ==
    CASE IsNaN(x) -> NaN
      [] x.k = "pinf" -> PInf
      [] x.k = "ninf" -> NaN
      [] OTHER -> IF x.v < 0 THEN NaN
                  ELSE IF x.v = 0 THEN NInf
                  ELSE Fin(Log2Fix(x.v))

\* The largest y >= from with y^Quantum <= t.
RECURSIVE RootUp(_, _)
RootUp(t, from) ==
    IF (from + 1)^Quantum <= t THEN RootUp(t, from + 1) ELSE from

\* Base ** e for a finite e >= 0: Base^floor(e) times the rounded
\* Base^(fractional part of e).
FPowBase(e) ==
    LET ip == e.v \div Quantum
        fr == e.v % Quantum
    IN Fin(Base^ip * RootUp(Quantum^Quantum * Base^fr, Quantum))

\* The literal 1e<k> (1e3, 1e4, ...).
Sci(k) == FPowBase(FInt(k))

\* ------------------------------------------------------------------ arrays
\* n_values.max()
RECURSIVE MaxFrom(_, _)
MaxFrom(a, i) ==
    IF i = Len(a) THEN a[i]
    ELSE LET rest == MaxFrom(a, i + 1)
         IN IF FLess(a[i], rest) THEN rest ELSE a[i]

ArrayMax(a) == MaxFrom(a, 1)

\* n_values.min()
RECURSIVE MinFrom(_, _)
MinFrom(a, i) ==
    IF i = Len(a) THEN a[i]
    ELSE LET rest == MinFrom(a, i + 1)
         IN IF FLess(rest, a[i]) THEN rest ELSE a[i]

ArrayMin(a) == MinFrom(a, 1)

\* A scan that lets a later equal element replace the best one.
RECURSIVE ArgminScanLast(_, _, _)
ArgminScanLast(a, i, best) ==
    IF i > Len(a) THEN best
    ELSE ArgminScanLast(a, i + 1, IF FLess(a[best], a[i]) THEN best ELSE i)

\* The scan of np.argmin: a later element replaces the best one only when
\* it is strictly smaller.
RECURSIVE ArgminScan(_, _, _)
ArgminScan(a, i, best) ==
    IF i > Len(a) THEN best
    ELSE ArgminScan(a, i + 1, IF FLess(a[i], a[best]) THEN i ELSE best)

\* np.argmin of an array without NaN (indices count from 1 here).
argmin(a) == ArgminScan(a, 2, 1)

\* np.linspace(start, stop, num) for num >= 2: the step is computed
\* first, the points are start + i * step, and the last point is set to stop.
linspace(start, stop, num) ==
    LET step == ((stop - start) * Quantum) \div (num - 1)
    IN [i \in 1..num |->
          IF i = num THEN FInt(stop)
          ELSE Fin(start * Quantum + (i - 1) * step)]

\* A sweep that loses its end point (np.logspace(..., endpoint=False)).
logspace_open(start, stop, num) ==
    LET step == ((stop - start) * Quantum) \div num
    IN [i \in 1..num |-> FPowBase(Fin(start * Quantum + (i - 1) * step))]

\* np.logspace(start, stop, num) == base ** np.linspace(start, stop, num)
logspace(start, stop, num) ==
    LET y == linspace(start, stop, num)
    IN [i \in 1..num |-> FPowBase(y[i])]

\* ---------------------------------------------------------- cost functions
\* A Dijkstra cost with the logarithmic term subtracted.
cost_dijkstra_minus(n, m) ==
    [i \in DOMAIN n |-> FSub(m[i], FMul(n[i], FLog2(n[i])))]

\* cost_dijkstra: m + n * np.log2(n)
cost_dijkstra(n, m) ==
    [i \in DOMAIN n |-> FAdd(m[i], FMul(n[i], FLog2(n[i])))]

\* The floating-point conditions np.log2, ** and * signal on the way.
duan_signals(n, m) ==
    LET log_val == [i \in DOMAIN n |-> FLog2(n[i])]
        guarded == [i \in DOMAIN n |->
                      IF IsNegInf(log_val[i]) THEN FInt(0) ELSE log_val[i]]
        powed == [i \in DOMAIN n |-> FPow23(guarded[i])]
    IN {c \in {"divide", "invalid"} :
          \E i \in DOMAIN n :
             \/ c = "divide" /\ IsFin(n[i]) /\ n[i].v = 0
             \/ c = "invalid" /\ ~IsNaN(n[i]) /\ IsNaN(log_val[i])
             \/ c = "invalid" /\ ~IsNaN(guarded[i]) /\ IsNaN(powed[i])
             \/ c = "invalid" /\ ~IsNaN(m[i]) /\ ~IsNaN(powed[i])
                              /\ IsNaN(FMul(m[i], powed[i]))}

\* A cost_duan_et_al that takes the logarithm in place (np.log2(n, out=n)).
cost_duan_et_al_inplace(n, m) ==
    LET log_val == [i \in DOMAIN n |-> FLog2(n[i])]
        guarded == [i \in DOMAIN n |->
                      IF IsNegInf(log_val[i]) THEN FInt(0) ELSE log_val[i]]
    IN [ret |-> [i \in DOMAIN n |-> FMul(m[i], FPow23(guarded[i]))],
        n |-> guarded,
        warn |-> {}]

\* cost_duan_et_al: under np.errstate(divide='ignore', invalid='ignore'),
\* log_val = np.log2(n); log_val[np.isneginf(log_val)] = 0;
\* return m * log_val ** (2/3).  ret is the returned array, n the argument
\* array after the call (the item assignment writes to log_val, a new
\* array), warn the conditions signalled and not ignored.
cost_duan_et_al(n, m) ==
    LET log_val == [i \in DOMAIN n |-> FLog2(n[i])]
        guarded == [i \in DOMAIN n |->
                      IF IsNegInf(log_val[i]) THEN FInt(0) ELSE log_val[i]]
    IN [ret |-> [i \in DOMAIN n |-> FMul(m[i], FPow23(guarded[i]))],
        n |-> n,
        warn |-> duan_signals(n, m) \ {"divide", "invalid"}]

\* A Grover cost that swaps its arguments: np.sqrt(m) * n.
cost_quantum_grover_swapped(n, m) ==
    [i \in DOMAIN n |-> FMul(FSqrt(m[i]), n[i])]

\* cost_quantum_grover: np.sqrt(n) * m
cost_quantum_grover(n, m) ==
    [i \in DOMAIN n |-> FMul(FSqrt(n[i]), m[i])]

\* cost_quantum_wesolowski: l * np.sqrt(m)
cost_quantum_wesolowski(n, m, l) ==
    [i \in DOMAIN n |-> FMul(l[i], FSqrt(m[i]))]

\* ---------------------------------------------------- scenario parameters
\* m_func: lambda n: 10 * n (sparse), lambda n: n**2 / 100 (dense)
m_func(f, n) ==
    [i \in DOMAIN n |->
       IF f = "sparse" THEN FMul(FInt(SparseFactor), n[i])
       ELSE FDivInt(FSquare(n[i]), DenseDivisor)]

\* l_func: lambda n: np.log2(n)**2 (short), lambda n: n / 10 (long)
l_func(f, n) ==
    [i \in DOMAIN n |->
       IF f = "short" THEN FSquare(FLog2(n[i]))
       ELSE FDivInt(n[i], LongPathDivisor)]

\* An optional array: None, or the array.
None == [some |-> FALSE, val |-> <<>>]
Some(a) == [some |-> TRUE, val |-> a]

\* output_dir of each script
output_dir(p) == IF p = "basic" THEN "figures" ELSE "figures_v2"

\* The scenarios each script runs, in order: the exponents of the sweep, the
\* edge-density and path-length functions, and the figure's file name.
Scenarios(p) ==
    IF p = "basic"
    THEN << [lo |-> WideLo, hi |-> WideHi, num |-> SweepNum, m_func |-> "sparse",
             l_func |-> "none", filename |-> "sssp_comparison_sparse.png"],
            [lo |-> WideLo, hi |-> DenseHi, num |-> SweepNum, m_func |-> "dense",
             l_func |-> "none", filename |-> "sssp_comparison_dense.png"] >>
    ELSE << [lo |-> WideLo, hi |-> WideHi, num |-> SweepNum, m_func |-> "sparse",
             l_func |-> "short", filename |-> "sparse_short_path.png"],
            [lo |-> WideLo, hi |-> WideHi, num |-> SweepNum, m_func |-> "sparse",
             l_func |-> "long", filename |-> "sparse_long_path.png"],
            [lo |-> WideLo, hi |-> DenseHi, num |-> SweepNum, m_func |-> "dense",
             l_func |-> "short", filename |-> "dense_short_path.png"],
            [lo |-> WideLo, hi |-> DenseHi, num |-> SweepNum, m_func |-> "dense",
             l_func |-> "long", filename |-> "dense_long_path.png"] >>

\* ------------------------------------------------------------ the runner
\* The key order of a three-entry costs dictionary.
BaseNames == <<"Dijkstra", "Duan et al.", "Grover SSSP">>

\* A costs dictionary that never gets the fourth series.
build_costs_three(n, m, l) ==
    LET d == cost_duan_et_al(n, m)
    IN [costs |-> << [name |-> "Dijkstra", series |-> cost_dijkstra(n, m)],
                     [name |-> "Duan et al.", series |-> d.ret],
                     [name |-> "Grover SSSP",
                      series |-> cost_quantum_grover(d.n, m)] >>,
        n |-> d.n,
        warn |-> d.warn]

\* costs = {'Dijkstra': ..., 'Duan et al.': ..., 'Grover SSSP': ...}, and
\* costs['Wesolowski et al.'] when l_values is not None.  The dictionary
\* keeps insertion order; the calls are made in that order, each on the
\* arrays as the calls before it left them.
build_costs(n, m, l) ==
    LET d == cost_duan_et_al(n, m)
        three == << [name |-> "Dijkstra", series |-> cost_dijkstra(n, m)],
                    [name |-> "Duan et al.", series |-> d.ret],
                    [name |-> "Grover SSSP",
                     series |-> cost_quantum_grover(d.n, m)] >>
    IN [costs |-> IF l.some
                  THEN Append(three,
                              [name |-> "Wesolowski et al.",
                               series |-> cost_quantum_wesolowski(d.n, m, l.val)])
                  ELSE three,
        n |-> d.n,
        warn |-> d.warn]

\* costs.keys()
Keys(cs) == [j \in DOMAIN cs |-> cs[j].name]

\* costs[name]
Lookup(cs, name) == (CHOOSE j \in DOMAIN cs : cs[j].name = name)

\* The representative sizes of run_analysis.py at every sweep.
n_points_basic(p, s) ==
    IF s = 1 THEN << Sci(3), Sci(6), Sci(9) >> ELSE << Sci(3), Sci(4), Sci(5) >>

\* for n_point in [...]: run_analysis.py samples [1e3, 1e6, 1e9] (sparse)
\* and [1e3, 1e4, 1e5] (dense); run_and_plot_scenario samples
\* [1e4, 1e6, 1e8] whatever the sweep.
n_points(p, s) ==
    IF p = "basic"
    THEN IF s = 1 THEN << Sci(3), Sci(6), Sci(9) >>
         ELSE << Sci(3), Sci(4), Sci(5) >>
    ELSE << Sci(4), Sci(6), Sci(8) >>

\* A range test that forgets the lower bound.
in_range_upper(nv, n_point) == ~FGreater(n_point, ArrayMax(nv))

\* not (n_point > n_values.max() or n_point < n_values.min())
in_range(nv, n_point) ==
    ~(FGreater(n_point, ArrayMax(nv)) \/ FLess(n_point, ArrayMin(nv)))

\* A nearest index that takes the last of several equally near elements.
nearest_index_last(nv, n_point) ==
    ArgminScanLast([i \in DOMAIN nv |-> FAbs(FSub(nv[i], n_point))], 2, 1)

\* idx = np.argmin(np.abs(n_values - n_point))
nearest_index(nv, n_point) ==
    argmin([i \in DOMAIN nv |-> FAbs(FSub(nv[i], n_point))])

\* The printed row: n_values[idx], then costs[name][idx] for each name.
make_row(nv, cs, names, n_point, i) ==
    [point |-> n_point,
     n |-> nv[i],
     cells |-> [j \in DOMAIN names |->
                  [name |-> names[j],
                   value |-> cs[Lookup(cs, names[j])].series[i]]]]

\* A directory check that creates nothing.
ensure_dir_noop(ds, d) == ds

\* if not os.path.exists(output_dir): os.makedirs(output_dir)
ensure_dir(ds, d) == IF d \in ds THEN ds ELSE ds \cup {d}

\* ------------------------------------------------------------------- state
VARIABLES
    prog,       \* what runs: a script, one call of the runner, or the cost functions
    pc,         \* the position in it
    dirs,       \* the directories that exist
    made,       \* the directories os.makedirs was called for
    saved,      \* the figures saved, each <<directory, file name>>
    scen,       \* the number of the scenario in progress
    arg,        \* its parameters
    n_values,   \* the size sweep
    m_values,   \* the edge counts
    l_values,   \* the path lengths, or None
    costs,      \* the costs dictionary: <<[name, series], ...>>
    header,     \* the names in the printed table header
    points,     \* the list of representative sizes the loop goes through
    pi,         \* the position in the list of representative sizes
    idx,        \* the index np.argmin returned last (0: none yet)
    rows,       \* the table rows printed for this scenario
    skipped,    \* the representative sizes passed over by continue
    plotted,    \* the series plotted, in order
    warn        \* floating-point conditions signalled and not ignored

vars == << prog, pc, dirs, made, saved, scen, arg, n_values, m_values,
           l_values, costs, header, points, pi, idx, rows, skipped, plotted,
           warn >>

Scripts == {"basic", "comprehensive"}

\* The arguments of a direct call of run_and_plot_scenario: a sweep
\* np.logspace(lo, hi, num) of sizes of at least one vertex.
CallArgs ==
    { [lo |-> lo, hi |-> hi, num |-> num, m_func |-> mf, l_func |-> lf,
       filename |-> "scenario.png"] :
        lo \in 0..WideHi, hi \in 0..WideHi, num \in 2..SweepNum,
        mf \in {"sparse", "dense"}, lf \in {"none", "short", "long"} }

\* The arrays handed directly to the cost functions: sizes 0, 1/Quantum (a
\* size between 0 and 1), 1, 2 and 4; edge counts 0, 1 and 16; lengths 4.
CostSizes == { Fin(0), Fin(1), FInt(1), FInt(2), FInt(4) }
CostEdges == { Fin(0), FInt(1), FInt(16) }
CostLengths == { FInt(4) }

Arrays(S, len) == [1..len -> S]

NoArg == [lo |-> 0, hi |-> 0, num |-> 0, m_func |-> "none", l_func |-> "none",
          filename |-> ""]

Locals0 ==
    /\ costs = <<>>
    /\ header = <<>>
    /\ points = <<>>
    /\ pi = 0
    /\ idx = 0
    /\ rows = <<>>
    /\ skipped = <<>>
    /\ plotted = <<>>
    /\ warn = {}

InitScript ==
    /\ prog \in Scripts
    /\ pc = "setup"
    /\ dirs \in {{}, {output_dir(prog)}}
    /\ made = {}
    /\ saved = {}
    /\ scen = 0
    /\ arg = NoArg
    /\ n_values = <<>>
    /\ m_values = <<>>
    /\ l_values = None
    /\ Locals0

InitCall ==
    /\ prog = "call"
    /\ pc = "scenario"
    /\ dirs = {output_dir(prog)}
    /\ made = {}
    /\ saved = {}
    /\ scen = 1
    /\ arg \in {a \in CallArgs : a.lo <= a.hi}
    /\ n_values = logspace(arg.lo, arg.hi, arg.num)
    /\ m_values = <<>>
    /\ l_values = None
    /\ Locals0

InitCost ==
    /\ prog = "cost"
    /\ pc = "cost"
    /\ dirs = {}
    /\ made = {}
    /\ saved = {}
    /\ scen = 0
    /\ arg = NoArg
    /\ \E len \in 1..MaxLen :
          /\ n_values \in Arrays(CostSizes, len)
          /\ m_values \in Arrays(CostEdges, len)
          /\ l_values \in {Some(a) : a \in Arrays(CostLengths, len)}
    /\ Locals0

Init == InitScript \/ InitCall \/ InitCost

\* ----------------------------------------------------------------- actions
\* Lines 6-8 of either script: the output directory is made if absent.
EnsureDir ==
    /\ prog \in Scripts
    /\ pc = "setup"
    /\ dirs' = ensure_dir(dirs, output_dir(prog))
    /\ made' = dirs' \ dirs
    /\ scen' = 1
    /\ arg' = Scenarios(prog)[1]
    /\ pc' = "sweep"
    /\ UNCHANGED << prog, saved, n_values, m_values, l_values, costs, header,
                    points, pi, idx, rows, skipped, plotted, warn >>

\* n_values = np.logspace(3, 9, 100), n_values_dense = np.logspace(3, 5, 100)
GenSweep ==
    /\ prog \in Scripts
    /\ pc = "sweep"
    /\ n_values' = logspace(arg.lo, arg.hi, arg.num)
    /\ pc' = "scenario"
    /\ UNCHANGED << prog, dirs, made, saved, scen, arg, m_values, l_values,
                    costs, header, points, pi, idx, rows, skipped, plotted,
                    warn >>

\* m_values = m_func(n_values); l_values = l_func(n_values) if l_func else None
\* (m_sparse = 10 * n_values, m_dense = n_values_dense**2 / 100 in run_analysis.py)
DeriveInputs ==
    /\ prog \in Scripts \cup {"call"}
    /\ pc = "scenario"
    /\ m_values' = m_func(arg.m_func, n_values)
    /\ l_values' = IF arg.l_func # "none"
                   THEN Some(l_func(arg.l_func, n_values))
                   ELSE None
    /\ pc' = "costs"
    /\ UNCHANGED << prog, dirs, made, saved, scen, arg, n_values, costs,
                    header, points, pi, idx, rows, skipped, plotted, warn >>

\* The costs dictionary is built.
ComputeCosts ==
    /\ prog \in Scripts \cup {"call"}
    /\ pc = "costs"
    /\ LET r == build_costs(n_values, m_values, l_values)
       IN /\ costs' = r.costs
          /\ n_values' = r.n
          /\ warn' = r.warn
    /\ pc' = "header"
    /\ UNCHANGED << prog, dirs, made, saved, scen, arg, m_values, l_values,
                    header, points, pi, idx, rows, skipped, plotted >>

\* The table header: the keys of costs (run_and_plot_scenario), the three
\* fixed names (run_analysis.py).
PrintHeader ==
    /\ prog \in Scripts \cup {"call"}
    /\ pc = "header"
    /\ header' = IF prog = "basic" THEN BaseNames ELSE Keys(costs)
    /\ points' = n_points(prog, scen)
    /\ pi' = 1
    /\ pc' = "samples"
    /\ UNCHANGED << prog, dirs, made, saved, scen, arg, n_values, m_values,
                    l_values, costs, idx, rows, skipped, plotted, warn >>

\* One pass of the loop over the representative sizes: continue when the
\* size is outside the sweep (run_and_plot_scenario only), else find the
\* nearest index and print its row.
SampleStep ==
    /\ prog \in Scripts \cup {"call"}
    /\ pc = "samples"
    /\ LET n_point == points[pi]
       IN /\ IF prog # "basic" /\ ~in_range(n_values, n_point)
             THEN /\ skipped' = Append(skipped, n_point)
                  /\ UNCHANGED << idx, rows >>
             ELSE LET i == nearest_index(n_values, n_point)
                  IN /\ idx' = i
                     /\ rows' = Append(rows,
                                       make_row(n_values, costs,
                                                IF prog = "basic" THEN BaseNames
                                                ELSE Keys(costs),
                                                n_point, i))
                     /\ UNCHANGED skipped
          /\ IF pi < Len(points)
             THEN pi' = pi + 1 /\ pc' = "samples"
             ELSE pi' = pi /\ pc' = "plot"
    /\ UNCHANGED << prog, dirs, made, saved, scen, arg, n_values, m_values,
                    l_values, costs, header, points, plotted, warn >>

\* plt.plot of the three series, and of 'Wesolowski et al.' if in costs.
Plot ==
    /\ prog \in Scripts \cup {"call"}
    /\ pc = "plot"
    /\ plotted' = IF prog # "basic"
                     /\ \E j \in DOMAIN costs : costs[j].name = "Wesolowski et al."
                  THEN Append(BaseNames, "Wesolowski et al.")
                  ELSE BaseNames
    /\ pc' = "save"
    /\ UNCHANGED << prog, dirs, made, saved, scen, arg, n_values, m_values,
                    l_values, costs, header, points, pi, idx, rows, skipped,
                    warn >>

\* plt.savefig(os.path.join(output_dir, filename)): fails when the
\* directory does not exist.
SaveFig ==
    /\ prog \in Scripts \cup {"call"}
    /\ pc = "save"
    /\ IF output_dir(prog) \in dirs
       THEN /\ saved' = saved \cup { << output_dir(prog), arg.filename >> }
            /\ pc' = "next"
       ELSE /\ saved' = saved
            /\ pc' = "crashed"
    /\ UNCHANGED << prog, dirs, made, scen, arg, n_values, m_values, l_values,
                    costs, header, points, pi, idx, rows, skipped, plotted,
                    warn >>

\* The scenario is over: its locals are gone; a script goes on to its next
\* scenario, generating a new sweep where the code does (the dense one).
NextScenario ==
    /\ prog \in Scripts \cup {"call"}
    /\ pc = "next"
    /\ costs' = <<>>
    /\ header' = <<>>
    /\ points' = <<>>
    /\ pi' = 0
    /\ idx' = 0
    /\ rows' = <<>>
    /\ skipped' = <<>>
    /\ plotted' = <<>>
    /\ IF prog \in Scripts /\ scen < Len(Scenarios(prog))
       THEN /\ scen' = scen + 1
            /\ arg' = Scenarios(prog)[scen + 1]
            /\ pc' = IF Scenarios(prog)[scen + 1].hi # arg.hi
                     THEN "sweep" ELSE "scenario"
       ELSE /\ scen' = scen
            /\ arg' = arg
            /\ pc' = "done"
    /\ UNCHANGED << prog, dirs, made, saved, n_values, m_values, l_values,
                    warn >>

\* The four cost functions applied to arrays handed in directly.
CallCostFunctions ==
    /\ prog = "cost"
    /\ pc = "cost"
    /\ LET r == build_costs(n_values, m_values, l_values)
       IN /\ costs' = r.costs
          /\ n_values' = r.n
          /\ warn' = r.warn
    /\ pc' = "done"
    /\ UNCHANGED << prog, dirs, made, saved, scen, arg, m_values, l_values,
                    header, points, pi, idx, rows, skipped, plotted >>

Next ==
    \/ EnsureDir
    \/ GenSweep
    \/ DeriveInputs
    \/ ComputeCosts
    \/ PrintHeader
    \/ SampleStep
    \/ Plot
    \/ SaveFig
    \/ NextScenario
    \/ CallCostFunctions

Spec == Init /\ [][Next]_vars

\* ------------------------------------------------------------- properties
\* A scenario is being run: by a script, or by a call of the runner.
ScenarioRun == prog \in Scripts \cup {"call"}

\* The series stored under a name.
Series(name) == costs[Lookup(costs, name)].series

HasSeries(name) == \E j \in DOMAIN costs : costs[j].name = name

\* The closed-form cost of one (n, m, l) tuple, as the formulas state it.
Formula(name, n, m, l) ==
    CASE name = "Dijkstra" -> FAdd(m, FMul(n, FLog2(n)))
      [] name = "Duan et al." -> FMul(m, FPow23(FLog2(n)))
      [] name = "Grover SSSP" -> FMul(FSqrt(n), m)
      [] name = "Wesolowski et al." -> FMul(l, FSqrt(m))

\* The path length at index i (0 when there is none).
LengthAt(i) == IF l_values.some THEN l_values.val[i] ELSE FInt(0)

\* C1: in every scenario run, every series has one element per element of
\* the sweep and the element at index i is its formula applied to n[i],
\* m[i], l[i]; handed directly to the cost functions, a size of at least 1
\* gives the same, a size of 1 makes the new-classical cost 0 for any m,
\* and a size of 1 with m = 0 makes Dijkstra's cost 0.
SeriesMatchFormulas ==
    costs # <<>> =>
        \A j \in DOMAIN costs :
            /\ DOMAIN costs[j].series = DOMAIN n_values
            /\ \A i \in DOMAIN n_values :
                  /\ (ScenarioRun \/ ~FLess(n_values[i], FInt(1))) =>
                        costs[j].series[i] =
                            Formula(costs[j].name, n_values[i], m_values[i],
                                    LengthAt(i))
                  /\ (costs[j].name = "Duan et al." /\ n_values[i] = FInt(1)) =>
                        costs[j].series[i] = FInt(0)
                  /\ (costs[j].name = "Dijkstra" /\ n_values[i] = FInt(1)
                      /\ m_values[i] = FInt(0)) =>
                        costs[j].series[i] = FInt(0)

\* C1's case: a scenario whose sweep starts at size 1 has its four series,
\* the new-classical one 0 there and Grover's not.
SeriesMatchFormulasWitness ==
    /\ prog = "call"
    /\ Len(costs) = 4
    /\ n_values[1] = FInt(1)
    /\ Series("Duan et al.")[1] = FInt(0)
    /\ Series("Grover SSSP")[1] # FInt(0)
    /\ Series("Grover SSSP")[Len(n_values)] # Series("Dijkstra")[Len(n_values)]

\* C2: in every scenario, every cost series is as long as the sweep and
\* every value of it is finite and not negative.
SeriesFiniteNonNegative ==
    (ScenarioRun /\ costs # <<>>) =>
        \A j \in DOMAIN costs :
            /\ Len(costs[j].series) = Len(n_values)
            /\ \A i \in DOMAIN costs[j].series :
                  /\ IsFin(costs[j].series[i])
                  /\ costs[j].series[i].v >= 0

\* C2's case: the dense scenario of run_analysis.py has computed its series.
SeriesFiniteNonNegativeWitness ==
    /\ prog = "basic"
    /\ scen = 2
    /\ pc = "header"
    /\ Len(costs) = 3
    /\ Len(Series("Dijkstra")) = SweepNum

\* C3: cost_duan_et_al, given sizes >= 0 and finite edge counts >= 0,
\* signals nothing, takes the logarithm of a size 0 as zero (so that the
\* cost there is m * 0), and returns no NaN and no infinity.
DuanNeverNaNOrInf ==
    (prog = "cost" /\ pc = "done") =>
        /\ warn = {}
        /\ \A i \in DOMAIN n_values :
              /\ n_values[i] = Fin(0) =>
                    Series("Duan et al.")[i] = FMul(m_values[i], FInt(0))
              /\ IsFin(Series("Duan et al.")[i])

\* |n[i] - r|
Distance(i, r) == FAbs(FSub(n_values[i], r))

\* C4: the row printed last is the row of the index idx, and idx is a
\* nearest index of the row's representative size r: no element of the
\* sweep is nearer to r than n[idx], every element before idx is farther,
\* and the printed size and every printed cost are the values at idx.
SampleIsNearestFirst ==
    rows # <<>> =>
        LET row == rows[Len(rows)]
            r == row.point
        IN /\ idx \in DOMAIN n_values
           /\ \A j \in DOMAIN n_values : ~FLess(Distance(j, r), Distance(idx, r))
           /\ \A j \in DOMAIN n_values :
                 j < idx => FLess(Distance(idx, r), Distance(j, r))
           /\ row.n = n_values[idx]
           /\ \A c \in DOMAIN row.cells :
                 row.cells[c].value = Series(row.cells[c].name)[idx]

\* C4's case: a row was printed where a later element of the sweep is just
\* as near to the representative size as the chosen one.
SampleIsNearestFirstWitness ==
    /\ rows # <<>>
    /\ idx < Len(n_values)
    /\ \E j \in DOMAIN n_values :
          /\ j > idx
          /\ Distance(j, rows[Len(rows)].point) = Distance(idx, rows[Len(rows)].point)
    /\ n_values[Len(n_values)] # n_values[idx]

\* r lies within the sweep: min(n) <= r <= max(n).
Covered(r) ==
    /\ \E i \in DOMAIN n_values : ~FLess(r, n_values[i])
    /\ \E i \in DOMAIN n_values : ~FLess(n_values[i], r)

\* The representative sizes the loop is done with.
Processed ==
    IF pc = "samples" THEN SubSeq(points, 1, pi - 1) ELSE points

\* C5: at every point of a scenario's sample loop, the rows printed are,
\* in list order, those of the representative sizes gone through that lie
\* within the sweep, and the sizes passed over are, in list order, those
\* that lie outside it.
RowsIffCovered ==
    (ScenarioRun /\ points # <<>>) =>
        /\ [k \in DOMAIN rows |-> rows[k].point] = SelectSeq(Processed, Covered)
        /\ skipped = SelectSeq(Processed, LAMBDA r : ~Covered(r))

\* C5's case: the first representative size was passed over, being below
\* the sweep, and the next two each got a row.
RowsIffCoveredWitness ==
    /\ prog = "call"
    /\ pc = "plot"
    /\ skipped = << points[1] >>
    /\ Len(rows) = 2
    /\ rows[1].point = points[2]
    /\ rows[2].point = points[3]

\* C6 as stated: the representative sizes are 10^3, 10^6, 10^9 at every
\* wide sweep and 10^3, 10^4, 10^5 at every dense sweep, in both scripts.
RepresentativeSizesAsStated ==
    (prog \in Scripts /\ points # <<>>) =>
        points = IF arg.hi = WideHi
                 THEN << Sci(3), Sci(6), Sci(9) >>
                 ELSE << Sci(3), Sci(4), Sci(5) >>

\* C6, amended: run_analysis.py samples 10^3, 10^6, 10^9 at its wide sweep
\* and 10^3, 10^4, 10^5 at its dense sweep; run_comprehensive_analysis.py
\* (and any call of run_and_plot_scenario) samples 10^4, 10^6, 10^8 at
\* every sweep, wide or dense.
RepresentativeSizesPerScript ==
    points # <<>> =>
        points = IF prog = "basic"
                 THEN IF arg.hi = WideHi
                      THEN << Sci(3), Sci(6), Sci(9) >>
                      ELSE << Sci(3), Sci(4), Sci(5) >>
                 ELSE << Sci(4), Sci(6), Sci(8) >>

\* C6's case: a dense scenario of run_comprehensive_analysis.py is in its
\* sample loop, with 10^4, 10^6, 10^8 as its list.
RepresentativeSizesWitness ==
    /\ prog = "comprehensive"
    /\ arg.hi = DenseHi
    /\ pc = "samples"
    /\ points = << Sci(4), Sci(6), Sci(8) >>
    /\ points # << Sci(3), Sci(4), Sci(5) >>

\* C7: in every run of run_and_plot_scenario the first three series are
\* Dijkstra, Duan et al. and Grover SSSP; the Wesolowski series is there,
\* in the table and in the plot exactly when a path-length function was
\* given; the header and every row list the keys of costs, in their order.
FourthSeriesIffPathLength ==
    (prog \in {"comprehensive", "call"} /\ costs # <<>>) =>
        /\ SubSeq(Keys(costs), 1, 3) = BaseNames
        /\ Keys(costs) = IF arg.l_func # "none"
                         THEN Append(BaseNames, "Wesolowski et al.")
                         ELSE BaseNames
        /\ header # <<>> => header = Keys(costs)
        /\ \A k \in DOMAIN rows :
              [c \in DOMAIN rows[k].cells |-> rows[k].cells[c].name] = header
        /\ plotted # <<>> => plotted = Keys(costs)

\* C7's case: a run without a path-length function has printed a row and
\* plotted its three series.
FourthSeriesWitness ==
    /\ prog = "call"
    /\ arg.l_func = "none"
    /\ pc = "save"
    /\ rows # <<>>
    /\ plotted = BaseNames
    /\ ~HasSeries("Wesolowski et al.")

\* The sweep of the scenario in progress has been generated.
SweepReady == ScenarioRun /\ pc \notin {"setup", "sweep", "crashed"}

\* The inputs of the scenario in progress have been derived.
InputsReady == SweepReady /\ pc # "scenario"

\* C8: a generated sweep has the requested number of values, all positive,
\* never decreasing, the first the lower and the last the upper bound; the
\* edge counts, and the path lengths if any, are as many and are derived
\* index by index from the sizes.
SweepWellFormed ==
    /\ SweepReady =>
          /\ Len(n_values) = arg.num
          /\ \A i \in DOMAIN n_values : IsFin(n_values[i]) /\ n_values[i].v > 0
          /\ \A i \in DOMAIN n_values :
                i > 1 => ~FLess(n_values[i], n_values[i - 1])
          /\ n_values[1] = Fin(Base^arg.lo * Quantum)
          /\ n_values[Len(n_values)] = Fin(Base^arg.hi * Quantum)
    /\ InputsReady =>
          /\ Len(m_values) = Len(n_values)
          /\ \A i \in DOMAIN n_values :
                m_values[i] = IF arg.m_func = "sparse"
                              THEN FMul(FInt(10), n_values[i])
                              ELSE FDivInt(FMul(n_values[i], n_values[i]), 100)
          /\ l_values.some <=> arg.l_func # "none"
          /\ l_values.some =>
                /\ Len(l_values.val) = Len(n_values)
                /\ \A i \in DOMAIN n_values :
                      l_values.val[i] =
                          IF arg.l_func = "short"
                          THEN FMul(FLog2(n_values[i]), FLog2(n_values[i]))
                          ELSE FDivInt(n_values[i], 10)

\* C8's case: the dense sweep of run_comprehensive_analysis.py, its values
\* not all different, with edge counts and path lengths derived.
SweepWellFormedWitness ==
    /\ prog = "comprehensive"
    /\ scen = 3
    /\ pc = "costs"
    /\ Len(n_values) = SweepNum
    /\ FLess(n_values[1], n_values[SweepNum])
    /\ l_values.some

\* C9: no step but the generation of a sweep changes the sweep, and no
\* step but the derivation of the inputs changes the edge counts; so in
\* every run, whatever ran before on the same sweep, the sweep is the one
\* generated, and the edge counts and every series are those computed
\* from it.
RunsAreIndependent ==
    /\ [][(pc # "sweep" => n_values' = n_values)
          /\ (pc # "scenario" => m_values' = m_values)]_vars
    /\ [](SweepReady => n_values = logspace(arg.lo, arg.hi, arg.num))
    /\ []((InputsReady /\ costs # <<>>) =>
            LET n == logspace(arg.lo, arg.hi, arg.num)
                m == m_func(arg.m_func, n)
            IN /\ m_values = m
               /\ \A j \in DOMAIN costs : \A i \in DOMAIN n :
                     costs[j].series[i] =
                         Formula(costs[j].name, n[i], m[i], LengthAt(i)))

\* C9's case: the second scenario run on the shared wide sweep has
\* computed its series and printed a row.
RunsAreIndependentWitness ==
    /\ prog = "comprehensive"
    /\ scen = 2
    /\ saved # {}
    /\ rows # <<>>
    /\ n_values = logspace(WideLo, WideHi, SweepNum)

\* The figures a script saves.
Figures(p) ==
    { << output_dir(p), Scenarios(p)[k].filename >> : k \in DOMAIN Scenarios(p) }

\* C10: in both scripts the output directory exists from the first step
\* on; no figure is saved without it, every figure saved is a file of that
\* directory, and a script that is done has saved all its figures; and
\* where the directory exists already, no step makes it or any other.
DirectoryBeforeFigures ==
    /\ [](prog \in Scripts =>
            /\ pc # "crashed"
            /\ pc # "setup" => output_dir(prog) \in dirs
            /\ made \subseteq {output_dir(prog)}
            /\ saved \subseteq Figures(prog)
            /\ \A f \in saved : f[1] \in dirs
            /\ pc = "done" => saved = Figures(prog))
    /\ [][(prog \in Scripts /\ output_dir(prog) \in dirs) =>
             (dirs' = dirs /\ made' = made)]_vars

\* C10's case: a script that found no output directory made it and saved
\* all its figures in it.
DirectoryBeforeFiguresWitness ==
    /\ prog = "basic"
    /\ pc = "done"
    /\ made = {"figures"}
    /\ dirs = {"figures"}
    /\ Cardinality(saved) = 2

====
